---- MODULE Spec2Model ----
(***************************************************************************)
(* The tile-grid map of privatecollection (map/src/lib.rs) together with   *)
(* the editor handlers that drive it (editor/src/main.rs).                 *)
(*                                                                         *)
(* Vec<T> is a sequence; Rust index i is TLA+ index i + 1.  Option<T> is   *)
(* a sequence of length 0 (None) or 1 (Some).  tiles is the outer Vec:     *)
(* tiles[i] is row i - 1 and tiles[i][j] the tile in column j - 1 of it.   *)
(***************************************************************************)
EXTENDS Integers, Sequences, FiniteSets, TLC

\* ------------------------------------------------------------------ bounds
MaxRows == 4
MaxCols == 3
MaxPainted == 2
MaxArg == 3
MaxPad == 1
MaxFileRows == 2
MaxFileCols == 2
MaxFileTiles == 2
MaxGameRows == 4
MaxGameCols == 4

\* --------------------------------------------------------------- data model
\* Option::None; Some(v) is <<v>>
None == <<>>

\* #[default] Blocked; Tile derives Default, every Option defaults to None
DefaultTile ==
    [tile_type |-> "Blocked", object |-> None, floor_object |-> None, connection |-> None]

NewMap == <<>>

\* vec![Tile::default(); n]
DefaultRow(n) == [j \in 1..n |-> DefaultTile]

\* self.tiles.get(0).unwrap_or(&vec![]).len()
FirstRowLen(t) == IF Len(t) = 0 THEN 0 ELSE Len(t[1])

\* ---------------------------------------------------------------- expand_to
\* lines 75-80: the outer Vec grows to x + 1 rows; the rows added have the
\* width row 0 had before the call
\* ResizeRows with <= for <: one row too many when x is the last row (C5)
ResizeRowsEager(t, x) ==
    IF Len(t) <= x + 1
        THEN t \o [i \in 1..(x + 2 - Len(t)) |-> DefaultRow(FirstRowLen(t))]
        ELSE t

ResizeRows(t, x) ==
    IF Len(t) < x + 1
        THEN t \o [i \in 1..(x + 1 - Len(t)) |-> DefaultRow(FirstRowLen(t))]
        ELSE t

\* lines 81-85: every row shorter than y + 1 is resized to y + 1
\* ResizeCols resizing to y instead of y + 1 (C1)
ResizeColsShort(t, y) ==
    [i \in 1..Len(t) |->
        IF Len(t[i]) < y THEN t[i] \o DefaultRow(y - Len(t[i])) ELSE t[i]]

ResizeCols(t, y) ==
    [i \in 1..Len(t) |->
        IF Len(t[i]) < y + 1 THEN t[i] \o DefaultRow(y + 1 - Len(t[i])) ELSE t[i]]

\* lines 87-94: for _ in (x + 1)..0, insert a default row at index 0
\* InsertRowsFront inserting empty rows instead of rows of the grid's width (C7)
InsertRowsFrontEmpty(t, n) ==
    IF n <= 0 THEN t ELSE [i \in 1..n |-> DefaultRow(0)] \o t

RECURSIVE InsertRowsFront(_, _)
InsertRowsFront(t, n) ==
    IF n <= 0 THEN t
    ELSE InsertRowsFront(<<DefaultRow(FirstRowLen(t))>> \o t, n - 1)

FrontRows(t, x) ==
    IF 0 > x + 1 THEN InsertRowsFront(t, 0 - (x + 1)) ELSE t

\* lines 95-101: for _ in (y + 1)..0, insert a default tile at index 0 of the row
\* FrontCols pushing the new tiles at the end of the row instead of index 0 (C6)
FrontColsAppended(t, y) ==
    [i \in 1..Len(t) |->
        IF 0 > y + 1 THEN t[i] \o DefaultRow(0 - (y + 1)) ELSE t[i]]

FrontCols(t, y) ==
    [i \in 1..Len(t) |->
        IF 0 > y + 1 THEN DefaultRow(0 - (y + 1)) \o t[i] ELSE t[i]]

\* pub fn expand_to(&mut self, y: i32, x: i32)
expand_to(t, y, x) == FrontCols(FrontRows(ResizeCols(ResizeRows(t, x), y), x), y)

\* --------------------------------------------------------------------- trim
SetMin(S) == CHOOSE m \in S : \A n \in S : m <= n
SetMax(S) == CHOOSE m \in S : \A n \in S : m >= n

\* usize::MAX, the value 0usize - 1 wraps to when overflow checks are off.  It
\* is 2^64 - 1 (2^32 - 1 on a 32-bit target); the model holds it as the largest
\* integer TLC represents, and only ever compares it with indices of the grid.
UsizeMax == 2147483647

\* n - 1 on usize without overflow checks
WrappingSub1(n) == IF n = 0 THEN UsizeMax ELSE n - 1

\* row.iter().any(|tile| tile.tile_type != TileType::Blocked)
HasNonBlocked(row) == \E j \in 1..Len(row) : row[j].tile_type # "Blocked"

NonBlockedRows(t) == {i \in 0..(Len(t) - 1) : HasNonBlocked(t[i + 1])}

NonBlockedCols(row) == {j \in 0..(Len(row) - 1) : row[j + 1].tile_type # "Blocked"}

\* lines 105-111
horizontal_lower_bound(t) ==
    IF NonBlockedRows(t) = {} THEN 0 ELSE SetMin(NonBlockedRows(t))

\* the default of line 119 taken as 0: an all-Blocked grid collapses to one row
horizontal_upper_bound_zero(t) ==
    IF NonBlockedRows(t) = {} THEN 0 ELSE SetMax(NonBlockedRows(t))

\* lines 112-119
horizontal_upper_bound(t) ==
    IF NonBlockedRows(t) = {} THEN WrappingSub1(Len(t)) ELSE SetMax(NonBlockedRows(t))

\* lines 125-129, the closure applied to one row
FirstNonBlocked(row) ==
    IF NonBlockedCols(row) = {} THEN 0 ELSE SetMin(NonBlockedCols(row))

\* lines 137-142, the closure applied to one row
LastNonBlocked(row) ==
    IF NonBlockedCols(row) = {} THEN WrappingSub1(Len(row)) ELSE SetMax(NonBlockedCols(row))

\* lines 121-132: the minimum over ALL rows, 0 when there is no row
vertical_lower_bound(t) ==
    IF Len(t) = 0 THEN 0
    ELSE SetMin({FirstNonBlocked(t[i]) : i \in 1..Len(t)})

\* lines 133-145: the maximum over ALL rows; with no row, the default of
\* line 145, which is 0 because tiles.get(0) is None
vertical_upper_bound(t) ==
    IF Len(t) = 0 THEN 0
    ELSE SetMax({LastNonBlocked(t[i]) : i \in 1..Len(t)})

\* the filter written with *i < hi: the last kept row or column is dropped
KeepRangeExclusive(s, lo, hi) ==
    SubSeq(s, lo + 1, IF hi < Len(s) THEN hi ELSE Len(s))

\* .enumerate().filter(|(i, _)| *i >= lo && *i <= hi)
KeepRange(s, lo, hi) ==
    SubSeq(s, lo + 1, (IF hi < Len(s) - 1 THEN hi ELSE Len(s) - 1) + 1)

\* The arguments of unwrap_or are evaluated eagerly: line 119 computes
\* tiles.len() - 1, line 142 row.len() - 1 for every row, line 145
\* row.len() - 1 for row 0.  Any of them underflows on a length of 0.
TrimUnderflows(t) == Len(t) = 0 \/ \E i \in 1..Len(t) : Len(t[i]) = 0

\* pub fn trim(&mut self), lines 147-159, when no subtraction panics
trim(t) ==
    LET rows == KeepRange(t, horizontal_lower_bound(t), horizontal_upper_bound(t))
    IN  [i \in 1..Len(rows) |->
            KeepRange(rows[i], vertical_lower_bound(t), vertical_upper_bound(t))]

\* ---------------------------------------------------------------------- pad
\* new_tiles[i + padding][j + padding] is out of range when a row is longer
\* than row 0 by more than padding
PadOutOfRange(t, padding) ==
    \E i \in 1..Len(t) : Len(t[i]) + padding > FirstRowLen(t) + padding * 2

\* pad writing new_tiles[i + padding][j]: the column offset forgotten (C10)
PadRowOffsetOnly(t, padding) ==
    [i \in 1..(Len(t) + padding * 2) |->
        [j \in 1..(FirstRowLen(t) + padding * 2) |->
            IF i - padding \in 1..Len(t) /\ j \in 1..Len(t[i - padding])
                THEN t[i - padding][j]
                ELSE DefaultTile]]

\* pad putting the margin in front of the rows and columns only
PadFrontOnly(t, padding) ==
    [i \in 1..(Len(t) + padding) |->
        [j \in 1..(FirstRowLen(t) + padding) |->
            IF i - padding \in 1..Len(t) /\ j - padding \in 1..Len(t[i - padding])
                THEN t[i - padding][j - padding]
                ELSE DefaultTile]]

\* pad returning the grid it was given, whatever the margin
PadMarginIgnored(t, padding) == t

\* pub fn pad(&mut self, padding: usize)
pad(t, padding) ==
    LET length == Len(t)
        width == FirstRowLen(t)
    IN  [i \in 1..(length + padding * 2) |->
            [j \in 1..(width + padding * 2) |->
                IF /\ i - padding \in 1..length
                   /\ j - padding \in 1..Len(t[i - padding])
                    THEN t[i - padding][j - padding]
                    ELSE DefaultTile]]

\* ------------------------------------------------------------- serde_json
RECURSIVE Concat(_)
Concat(ss) == IF Len(ss) = 0 THEN <<>> ELSE Head(ss) \o Concat(Tail(ss))

\* Quat is written as its four components
ObjectJson(o) ==
    <<"{", "object_type", o.object_type, "rotation", "[">>
        \o [k \in 1..4 |-> ToString(o.rotation[k])] \o <<"]", "}">>

FloorObjectJson(f) == <<"{", "object_type", f.object_type, "}">>

\* spawn written second component first
ConnectionJsonSwapped(c) ==
    <<"{", "map", c.map, "spawn", "[", ToString(c.spawn[2]), ToString(c.spawn[1]), "]", "}">>

ConnectionJson(c) ==
    <<"{", "map", c.map, "spawn", "[", ToString(c.spawn[1]), ToString(c.spawn[2]), "]", "}">>

\* an Option field is written as null when it is None
TileJson(tile) ==
    <<"{", "tile_type", tile.tile_type, "object">>
        \o (IF tile.object = None THEN <<"null">> ELSE ObjectJson(tile.object[1]))
        \o <<"floor_object">>
        \o (IF tile.floor_object = None THEN <<"null">>
                ELSE FloorObjectJson(tile.floor_object[1]))
        \o <<"connection">>
        \o (IF tile.connection = None THEN <<"null">>
                ELSE ConnectionJson(tile.connection[1]))
        \o <<"}">>

RowJson(row) == <<"[">> \o Concat([j \in 1..Len(row) |-> TileJson(row[j])]) \o <<"]">>

\* serde_json::to_string(&map), as the sequence of its tokens
to_string(t) ==
    <<"{", "tiles", "[">> \o Concat([i \in 1..Len(t) |-> RowJson(t[i])]) \o <<"]", "}">>

\* serde_json::from_reader into the types of map/src/lib.rs.  The text is
\* read from a position p on: Is... tells whether a value of the type
\* starts at p, ...At is that value, ...Len the number of its tokens.
TileTypes == {"Walkable", "Blocked"}
ObjectTypes == {"Wall", "Door"}

\* the numbers the files considered hold
Numbers == (0 - 1)..2

Tok(toks, p) == IF p \in 1..Len(toks) THEN toks[p] ELSE "<eof>"

IsNumber(tok) == \E n \in Numbers : ToString(n) = tok

ParseNumber(tok) == CHOOSE n \in Numbers : ToString(n) = tok

\* Object: object_type and the four components of rotation
IsObject(toks, p) ==
    /\ Tok(toks, p) = "{"
    /\ Tok(toks, p + 1) = "object_type"
    /\ Tok(toks, p + 2) \in ObjectTypes
    /\ Tok(toks, p + 3) = "rotation"
    /\ Tok(toks, p + 4) = "["
    /\ \A k \in 1..4 : IsNumber(Tok(toks, p + 4 + k))
    /\ Tok(toks, p + 9) = "]"
    /\ Tok(toks, p + 10) = "}"

ObjectAt(toks, p) ==
    [object_type |-> toks[p + 2],
     rotation |-> [k \in 1..4 |-> ParseNumber(toks[p + 4 + k])]]

IsFloorObject(toks, p) ==
    /\ Tok(toks, p) = "{"
    /\ Tok(toks, p + 1) = "object_type"
    /\ Tok(toks, p + 2) \in ObjectTypes
    /\ Tok(toks, p + 3) = "}"

FloorObjectAt(toks, p) == [object_type |-> toks[p + 2]]

\* Connection: map is any string, spawn a pair of usize
IsConnection(toks, p) ==
    /\ Tok(toks, p) = "{"
    /\ Tok(toks, p + 1) = "map"
    /\ p + 2 <= Len(toks)
    /\ Tok(toks, p + 3) = "spawn"
    /\ Tok(toks, p + 4) = "["
    /\ \A k \in 1..2 : IsNumber(Tok(toks, p + 4 + k)) /\ ParseNumber(toks[p + 4 + k]) >= 0
    /\ Tok(toks, p + 7) = "]"
    /\ Tok(toks, p + 8) = "}"

ConnectionAt(toks, p) ==
    [map |-> toks[p + 2],
     spawn |-> <<ParseNumber(toks[p + 5]), ParseNumber(toks[p + 6])>>]

\* an Option field is null (one token) or the value, of n tokens
OptionLen(toks, p, n) == IF Tok(toks, p) = "null" THEN 1 ELSE n

\* the positions of the values of the three Option fields of the Tile at p,
\* and the position of its closing brace
ObjectPos(toks, p) == p + 4
FloorObjectPos(toks, p) == ObjectPos(toks, p) + OptionLen(toks, ObjectPos(toks, p), 11) + 1
ConnectionPos(toks, p) ==
    FloorObjectPos(toks, p) + OptionLen(toks, FloorObjectPos(toks, p), 4) + 1
TileEnd(toks, p) == ConnectionPos(toks, p) + OptionLen(toks, ConnectionPos(toks, p), 9)

IsTile(toks, p) ==
    /\ Tok(toks, p) = "{"
    /\ Tok(toks, p + 1) = "tile_type"
    /\ Tok(toks, p + 2) \in TileTypes
    /\ Tok(toks, p + 3) = "object"
    /\ Tok(toks, p + 4) = "null" \/ IsObject(toks, p + 4)
    /\ Tok(toks, FloorObjectPos(toks, p) - 1) = "floor_object"
    /\ LET q == FloorObjectPos(toks, p)
       IN  Tok(toks, q) = "null" \/ IsFloorObject(toks, q)
    /\ Tok(toks, ConnectionPos(toks, p) - 1) = "connection"
    /\ LET q == ConnectionPos(toks, p)
       IN  Tok(toks, q) = "null" \/ IsConnection(toks, q)
    /\ Tok(toks, TileEnd(toks, p)) = "}"

TileAt(toks, p) ==
    [tile_type |-> toks[p + 2],
     object |-> IF toks[p + 4] = "null" THEN None ELSE <<ObjectAt(toks, p + 4)>>,
     floor_object |->
        LET q == FloorObjectPos(toks, p)
        IN  IF toks[q] = "null" THEN None ELSE <<FloorObjectAt(toks, q)>>,
     connection |->
        LET q == ConnectionPos(toks, p)
        IN  IF toks[q] = "null" THEN None ELSE <<ConnectionAt(toks, q)>>]

\* the tiles of a row from p up to its closing bracket
RECURSIVE IsTiles(_, _)
IsTiles(toks, p) ==
    \/ Tok(toks, p) = "]"
    \/ IsTile(toks, p) /\ IsTiles(toks, TileEnd(toks, p) + 1)

RECURSIVE TilesAt(_, _)
TilesAt(toks, p) ==
    IF toks[p] = "]" THEN <<>>
    ELSE <<TileAt(toks, p)>> \o TilesAt(toks, TileEnd(toks, p) + 1)

\* the position of the closing bracket of the row whose tiles start at p
RECURSIVE TilesEnd(_, _)
TilesEnd(toks, p) ==
    IF toks[p] = "]" THEN p ELSE TilesEnd(toks, TileEnd(toks, p) + 1)

\* the rows from p up to the closing bracket of tiles
RECURSIVE IsRows(_, _)
IsRows(toks, p) ==
    \/ Tok(toks, p) = "]"
    \/ /\ Tok(toks, p) = "["
       /\ IsTiles(toks, p + 1)
       /\ IsRows(toks, TilesEnd(toks, p + 1) + 1)

RECURSIVE RowsAt(_, _)
RowsAt(toks, p) ==
    IF toks[p] = "]" THEN <<>>
    ELSE <<TilesAt(toks, p + 1)>> \o RowsAt(toks, TilesEnd(toks, p + 1) + 1)

RECURSIVE RowsEnd(_, _)
RowsEnd(toks, p) ==
    IF toks[p] = "]" THEN p ELSE RowsEnd(toks, TilesEnd(toks, p + 1) + 1)

\* the text is a Map: {"tiles": [rows]} and nothing after it
IsMap(toks) ==
    /\ Tok(toks, 1) = "{"
    /\ Tok(toks, 2) = "tiles"
    /\ Tok(toks, 3) = "["
    /\ IsRows(toks, 4)
    /\ Tok(toks, RowsEnd(toks, 4) + 1) = "}"
    /\ RowsEnd(toks, 4) + 1 = Len(toks)

\* serde_json::from_reader(file): Ok(Map) or Err
from_reader(toks) ==
    IF IsMap(toks) THEN [ok |-> TRUE, map |-> RowsAt(toks, 4)]
                   ELSE [ok |-> FALSE, map |-> NewMap]

\* -------------------------------------------------------------------- state
VARIABLES
    tiles,            \* LiveMap.0.tiles
    panicked,         \* the process has aborted on a panic
    written,          \* what the last handler wrote to the chosen file, if anything
    prev,             \* tiles as they were when the call in op was made
    op,               \* the call that has just run and its arguments; idle between calls
    state,            \* State: "StartMenu" or "Editor"
    in_file,          \* InFile.0: None or Some(the file selected in the menu)
    read,             \* what the last handler read from the selected file, if anything
    view,             \* the cursor and the camera of the last click, as it left them
    menu_state,       \* MenuState: "Main" or "LoadMap"
    next_menu_state,  \* NextState<MenuState>: None or Some(the state set)
    next_state,       \* NextState<State>: None or Some(the state set)
    program,          \* the binary that runs: "editor", "game" or "grid"
    current_map,      \* CurrentMap.0.tiles of the game, GridWalkable.grid of the grid demo
    position,         \* PlayerPosition.pos, GridWalkable.current_position
    tick              \* the last run of player_movement: where it started, the
                      \* cells it looked up and the cells it moved to

vars == <<tiles, panicked, written, prev, op, state, in_file, read, view,
          menu_state, next_menu_state, next_state,
          program, current_map, position, tick>>

\* the resources of the game
game == <<program, current_map, position, tick>>

NoTick == [from |-> <<0, 0>>, lookups |-> {}, landed |-> {}]

\* the resources of the menu
menu == <<menu_state, next_menu_state, next_state>>

NoWrite == <<>>
NoRead == <<>>

\* cursor is the offset of the cursor from the centre of the window, y
\* upwards (lines 514-515); translation and scale are those of the camera
\* Transform, whose scale.x and scale.y are always equal (lines 497-498).
\* Camera2dBundle::default() has translation 0 and scale 1.
NoView == [cursor |-> <<0, 0>>, translation |-> <<0, 0>>, scale |-> 1]

Op(name, a, b) == [name |-> name, a |-> a, b |-> b]

\* The engine is single-threaded and synchronous: a call is made only when
\* no other is in progress.
Idle == Op("idle", 0, 0)
Callable == op = Idle /\ ~panicked

Painted(t) ==
    Cardinality({<<i, j>> \in (1..MaxRows) \X (1..MaxCols) :
        i <= Len(t) /\ j <= Len(t[i]) /\ t[i][j].tile_type = "Walkable"})

\* the grids the bounds admit
Bounded(t) ==
    /\ Len(t) <= MaxRows
    /\ \A i \in 1..Len(t) : Len(t[i]) <= MaxCols
    /\ Painted(t) <= MaxPainted

\* ------------------------------------------------------------ input files
\* the values of the fields of a Tile the files considered hold; a rotation
\* is the four components of a Quat
Rotations == {<<0, 0, 0, 1>>, <<0, 0, 1, 0>>}
Objects == [object_type : ObjectTypes, rotation : Rotations]
FloorObjects == [object_type : ObjectTypes]
Connections == [map : {"cave"}, spawn : {<<0, 1>>, <<2, 0>>}]

Option(S) == {None} \cup {<<v>> : v \in S}

\* every combination of the fields of a Tile
Tiles ==
    [tile_type : TileTypes, object : Option(Objects),
     floor_object : Option(FloorObjects), connection : Option(Connections)]

\* the tiles put into the grids of more than one tile
SpecialTiles ==
    {[DefaultTile EXCEPT !.tile_type = "Walkable"],
     [DefaultTile EXCEPT !.object = <<[object_type |-> "Wall", rotation |-> <<0, 0, 0, 1>>]>>],
     [tile_type |-> "Walkable",
      object |-> <<[object_type |-> "Door", rotation |-> <<0, 0, 1, 0>>]>>,
      floor_object |-> <<[object_type |-> "Wall"]>>,
      connection |-> <<[map |-> "cave", spawn |-> <<0, 1>>]>>],
     [DefaultTile EXCEPT !.floor_object = <<[object_type |-> "Door"]>>,
                         !.connection = <<[map |-> "cave", spawn |-> <<2, 0>>]>>]}

\* the rows x cols grid that holds f[c] at every cell c of the domain of f
\* and the default Tile elsewhere
GridOf(rows, cols, f) ==
    [i \in 1..rows |-> [j \in 1..cols |->
        IF <<i, j>> \in DOMAIN f THEN f[<<i, j>>] ELSE DefaultTile]]

\* the rectangular maps of up to max_rows x max_cols tiles, zero rows and
\* zero-width rows included, with up to max_tiles special tiles
GridMaps(max_rows, max_cols, max_tiles) ==
    UNION {UNION {{GridOf(rows, cols, f) : f \in [S -> SpecialTiles]} :
                    S \in {T \in SUBSET ((1..rows) \X (1..cols)) :
                              Cardinality(T) <= max_tiles}} :
             <<rows, cols>> \in (0..max_rows) \X (0..max_cols)}

\* the maps of one tile, for every Tile
OneTileMaps == {<<<<tile>>>> : tile \in Tiles}

FileMaps(max_rows, max_cols, max_tiles) ==
    GridMaps(max_rows, max_cols, max_tiles) \cup OneTileMaps

\* the lengths of the rows of a grid of up to max_rows rows of up to
\* max_cols tiles each: Vec<Vec<Tile>> does not make the rows equally long
RaggedShapes(max_rows, max_cols) ==
    UNION {[1..rows -> 0..max_cols] : rows \in 0..max_rows}

\* the tiles put into the grids of rows of any length: a floor tile, and a
\* Blocked tile that holds a wall
RaggedTiles ==
    {[DefaultTile EXCEPT !.tile_type = "Walkable"],
     [DefaultTile EXCEPT !.object = <<[object_type |-> "Wall", rotation |-> <<0, 0, 0, 1>>]>>]}

\* the grid of the given row lengths that holds f[c] at every cell c of the
\* domain of f and the default Tile elsewhere
RaggedOf(shape, f) ==
    [i \in 1..Len(shape) |-> [j \in 1..shape[i] |->
        IF <<i, j>> \in DOMAIN f THEN f[<<i, j>>] ELSE DefaultTile]]

\* the maps serde reads: every grid of rows of any lengths, here with up to
\* max_tiles tiles of RaggedTiles
RaggedMaps(max_rows, max_cols, max_tiles) ==
    UNION {UNION {{RaggedOf(shape, f) : f \in [S -> RaggedTiles]} :
                    S \in {T \in SUBSET {c \in (1..Len(shape)) \X (1..max_cols) :
                                            c[2] <= shape[c[1]]} :
                              Cardinality(T) <= max_tiles}} :
             shape \in RaggedShapes(max_rows, max_cols)}

\* texts that are not a Map: an empty file, a file cut short, a file with
\* a tile_type that is no variant of TileType
BrokenContents ==
    {<<>>,
     <<"{", "tiles", "[", "[">>,
     to_string(<<<<[DefaultTile EXCEPT !.tile_type = "Lava"]>>>>)}

\* a file of the file system: whether File::open succeeds, and its content,
\* which is broken or the text of one of maps
Files(maps) ==
    {[opens |-> FALSE, content |-> <<>>]}
        \cup {[opens |-> TRUE, content |-> c] : c \in BrokenContents}
        \cup {[opens |-> TRUE, content |-> to_string(m)] : m \in maps}

\* --------------------------------------------------------------- the session
\* the program after startup: the menu is shown, no file is selected, and
\* LiveMap is Map::default()
Init ==
    /\ tiles = NewMap
    /\ panicked = FALSE
    /\ written = NoWrite
    /\ prev = NewMap
    /\ op = Idle
    /\ state = "StartMenu"
    /\ in_file = None
    /\ read = NoRead
    /\ view = NoView
    /\ menu_state = "Main"
    /\ next_menu_state = None
    /\ next_state = None
    /\ program = "editor"
    /\ current_map = NewMap
    /\ position = <<0, 0>>
    /\ tick = NoTick

\* the Load Map screen after FileSelect (lines 314-317) has put a picked
\* file into InFile
InitLoad ==
    /\ tiles = NewMap
    /\ panicked = FALSE
    /\ written = NoWrite
    /\ prev = NewMap
    /\ op = Idle
    /\ state = "StartMenu"
    /\ in_file \in {<<file>> : file \in Files(FileMaps(MaxFileRows, MaxFileCols, MaxFileTiles))}
    /\ read = NoRead
    /\ view = NoView
    /\ menu_state = "LoadMap"
    /\ next_menu_state = None
    /\ next_state = None
    /\ program = "editor"
    /\ current_map = NewMap
    /\ position = <<0, 0>>
    /\ tick = NoTick

\* the menu after FileSelect has put into InFile a file whose rows may
\* differ in length
InitLib ==
    /\ tiles = NewMap
    /\ panicked = FALSE
    /\ written = NoWrite
    /\ prev = NewMap
    /\ op = Idle
    /\ state = "StartMenu"
    /\ in_file \in {<<file>> : file \in Files(RaggedMaps(MaxFileRows, MaxFileCols, MaxFileTiles))}
    /\ read = NoRead
    /\ view = NoView
    /\ menu_state = "LoadMap"
    /\ next_menu_state = None
    /\ next_state = None
    /\ program = "editor"
    /\ current_map = NewMap
    /\ position = <<0, 0>>
    /\ tick = NoTick

\* the editing systems run in State::Editor only (lines 360-365)
InEditor == state = "Editor"

\* the input of editor_setup: 0 no file is selected, 1 the selected file
\* does not open, 2 it opens and is a Map, 3 it opens and is not a Map
FileKind(slot) ==
    IF slot = None THEN 0
    ELSE IF ~slot[1].opens THEN 1
    ELSE IF IsMap(slot[1].content) THEN 2
    ELSE 3

\* editor_setup with .unwrap() on the result of from_reader as well
SetupPanicsOnErr(file) == ~file.opens \/ ~IsMap(file.content)

\* File::open(file).unwrap(), line 380
SetupPanics(file) == ~file.opens

\* lines 378-387: the Map of the file, or the empty Map when it does not parse
LoadedMap(file) == from_reader(file.content).map

\* line 385: 1 when "Failed to load map from file" is printed, 0 otherwise
Diagnostic(file) == IF IsMap(file.content) THEN 0 ELSE 1

\* the buttons of the screen shown: main_menu_setup spawns LoadMap and
\* NewMap (lines 182, 197), load_map_setup spawns FileSelect, Continue and
\* BackToMainMenu (lines 257, 272, 287); leaving a screen despawns its buttons
Buttons(screen) ==
    IF screen = "Main" THEN {"LoadMap", "NewMap"}
    ELSE {"FileSelect", "Continue", "BackToMainMenu"}

MenuActions == Buttons("Main") \cup Buttons("LoadMap")

\* InFile after a press in which BackToMainMenu leaves the selection alone
InFileAfterKept(action, slot, picked) ==
    IF action = "FileSelect" THEN picked ELSE slot

\* InFile after a press: line 309 and lines 315-316; picked is what
\* FileDialog::pick_file returned, None when the dialog was cancelled
InFileAfter(action, slot, picked) ==
    IF action = "BackToMainMenu" THEN None
    ELSE IF action = "FileSelect" THEN picked
    ELSE slot

\* menu_action, lines 299-326, for one pressed button.  The system runs in
\* State::StartMenu only; a state set through NextState is applied before
\* the next Update, so no press is handled while one is pending.  op keeps
\* the button and what InFile held when it was pressed.
MenuAction(action, picked) ==
    /\ state = "StartMenu"
    /\ Callable
    /\ next_menu_state = None /\ next_state = None
    /\ action \in Buttons(menu_state)
    /\ in_file' = InFileAfter(action, in_file, picked)
    /\ next_menu_state' =
           IF action = "BackToMainMenu" THEN <<"Main">>
           ELSE IF action = "LoadMap" THEN <<"LoadMap">>
           ELSE None
    /\ next_state' =
           IF action = "NewMap" \/ (action = "Continue" /\ in_file # None)
               THEN <<"Editor">>
               ELSE None
    /\ op' = Op("menu_action", action, FileKind(in_file))
    /\ UNCHANGED <<tiles, panicked, written, prev, state, read, view, menu_state>>
    /\ UNCHANGED game

\* apply_state_transition::<MenuState>: the screen set by the last press
\* replaces the one shown
MenuTransition ==
    /\ state = "StartMenu"
    /\ Callable
    /\ next_menu_state # None
    /\ menu_state' = next_menu_state[1]
    /\ next_menu_state' = None
    /\ UNCHANGED <<tiles, panicked, written, prev, op, state, in_file, read, view, next_state>>
    /\ UNCHANGED game

\* NewMap, or Continue with a file selected, sets State::Editor (lines 312,
\* 318-322); editor_setup, lines 373-392, runs on entering it.  in_file.0.take()
\* empties the slot before anything else is done.
EditorSetup ==
    /\ state = "StartMenu"
    /\ next_state = <<"Editor">>
    /\ Callable
    /\ UNCHANGED <<view, menu_state, next_menu_state>>
    /\ UNCHANGED game
    /\ next_state' = None
    /\ state' = "Editor"
    /\ in_file' = None
    /\ prev' = tiles
    /\ written' = NoWrite
    /\ IF in_file = None
           THEN /\ tiles' = NewMap
                /\ panicked' = FALSE
                /\ read' = NoRead
                /\ op' = Op("editor_setup", FileKind(in_file), 0)
       ELSE IF SetupPanics(in_file[1])
           THEN /\ tiles' = tiles
                /\ panicked' = TRUE
                /\ read' = NoRead
                /\ op' = Op("editor_setup", FileKind(in_file), 0)
           ELSE /\ tiles' = LoadedMap(in_file[1])
                /\ panicked' = FALSE
                /\ read' = in_file[1].content
                /\ op' = Op("editor_setup", FileKind(in_file), Diagnostic(in_file[1]))

Args == (0 - MaxArg)..MaxArg

\* a call of Map::expand_to(y, x)
ExpandTo(y, x) ==
    /\ InEditor
    /\ Callable
    /\ UNCHANGED menu
    /\ UNCHANGED game
    /\ UNCHANGED <<state, in_file, read, view>>
    /\ LET t == expand_to(tiles, y, x)
       IN  Bounded(t) /\ tiles' = t
    /\ prev' = tiles
    /\ op' = Op("expand_to", y, x)
    /\ written' = NoWrite
    /\ UNCHANGED panicked

\* a call of Map::trim().  overflow_checks is the build's setting (on in the
\* dev profile, off in release): with it a usize underflow panics, without
\* it the subtraction wraps.  Each underflow is resolved either way.
Trim(overflow_checks) ==
    /\ InEditor
    /\ Callable
    /\ UNCHANGED menu
    /\ UNCHANGED game
    /\ UNCHANGED <<state, in_file, read, view>>
    /\ IF TrimUnderflows(tiles) /\ overflow_checks
           THEN panicked' = TRUE /\ tiles' = tiles
           ELSE panicked' = FALSE /\ tiles' = trim(tiles)
    /\ prev' = tiles
    /\ op' = Op("trim", 0, 0)
    /\ written' = NoWrite

\* a call of Map::pad(padding)
Pad(padding) ==
    /\ InEditor
    /\ Callable
    /\ UNCHANGED menu
    /\ UNCHANGED game
    /\ UNCHANGED <<state, in_file, read, view>>
    /\ Bounded(pad(tiles, padding))
    /\ IF PadOutOfRange(tiles, padding)
           THEN panicked' = TRUE /\ tiles' = tiles
           ELSE panicked' = FALSE /\ tiles' = pad(tiles, padding)
    /\ prev' = tiles
    /\ op' = Op("pad", padding, 0)
    /\ written' = NoWrite

\* The tile size of the editor: x.floor() / 32.0
TileSize == 32

\* the cast rounding to the nearest whole number
AsI32Nearest(p) ==
    IF p >= 0 THEN (p + TileSize \div 2) \div TileSize
              ELSE 0 - ((0 - p + TileSize \div 2) \div TileSize)

\* f32 as i32 rounds toward zero; p is the whole number x.floor()
AsI32(p) == IF p >= 0 THEN p \div TileSize ELSE 0 - ((0 - p) \div TileSize)

\* f32 as usize rounds toward zero and saturates: a negative value gives 0
AsUsize(p) == IF p >= 0 THEN p \div TileSize ELSE 0

\* a write that resizes the grid up to the address before it writes
SetWalkableGrowing(t, row, col) ==
    [ResizeCols(ResizeRows(t, row), col) EXCEPT ![row + 1][col + 1].tile_type = "Walkable"]

\* lines 528-533: tiles.get_mut(y as usize), then get_mut(x as usize)
SetWalkable(t, row, col) ==
    IF row < Len(t) /\ col < Len(t[row + 1])
        THEN [t EXCEPT ![row + 1][col + 1].tile_type = "Walkable"]
        ELSE t

\* mouse_input, lines 523-533, on a left click: px and py are the floors of
\* the scaled world coordinates of lines 520-521
Clicked(t, px, py) ==
    SetWalkable(expand_to(t, AsI32(px), AsI32(py)), AsUsize(py), AsUsize(px))

\* the scaled coordinates a click is tried with: the first pixel of every
\* cell from the origin on, and both ends of the two cells before the origin
Pixels ==
    {TileSize * k : k \in 0..MaxArg}
        \cup {0 - 1, 0 - TileSize, 0 - TileSize - 1, 0 - 2 * TileSize}

\* lines 514-521 and the floor of line 523, on one axis (1 is x, 2 is y)
Scaled(v, axis) == (v.cursor[axis] + v.translation[axis]) * v.scale

\* lines 535-544: on an axis whose coordinate is negative the translation
\* becomes -(offset of the cursor * camera.scale)
Corrected(click) ==
    [axis \in 1..2 |->
        IF Scaled(click, axis) < 0
            THEN 0 - (click.cursor[axis] * click.scale)
            ELSE click.translation[axis]]

\* the clicks tried: with the camera as it starts, a cursor that gives
\* every coordinate of Pixels, or one at the first or last pixel of the cell
\* at the centre; and, with the camera moved by half a tile or not and
\* zoomed out by 2 or not, a cursor at the centre or a tile and a half
\* before it
Clicks ==
    {[cursor |-> <<cx, cy>>, translation |-> <<0, 0>>, scale |-> 1] :
        cx \in Pixels, cy \in Pixels}
    \cup
    {[cursor |-> <<cx, cy>>, translation |-> <<0, 0>>, scale |-> 1] :
        cx \in {0, TileSize - 1}, cy \in {0, TileSize - 1}}
    \cup
    {[cursor |-> <<cx, cy>>, translation |-> <<t, t>>, scale |-> s] :
        cx \in {0, 0 - 48}, cy \in {0, 0 - 48}, t \in {0, 16}, s \in {1, 2}}

\* a frame with a left click: mouse_navigation has brought the camera to
\* click.translation and click.scale, then mouse_input runs (lines 360-365
\* chain the two), lines 511-547
MouseInput(click) ==
    /\ InEditor
    /\ Callable
    /\ UNCHANGED menu
    /\ UNCHANGED game
    /\ UNCHANGED <<state, in_file, read>>
    /\ LET t == Clicked(tiles, Scaled(click, 1), Scaled(click, 2))
       IN  Bounded(t) /\ tiles' = t
    /\ prev' = tiles
    /\ op' = Op("mouse_input", Scaled(click, 1), Scaled(click, 2))
    /\ view' = [click EXCEPT !.translation = Corrected(click)]
    /\ written' = NoWrite
    /\ UNCHANGED panicked

\* how the file operations of keyboard_input ended: 0 none failed, 1
\* File::create failed (line 557), 2 write_all failed (line 563), which is
\* reached only when trim and pad (lines 559-560) did not panic before it
SaveOutcome(t, path_chosen, create_ok, overflow_checks, write_ok) ==
    IF ~path_chosen THEN 0
    ELSE IF ~create_ok THEN 1
    ELSE IF (TrimUnderflows(t) /\ overflow_checks) \/ PadOutOfRange(trim(t), 1) THEN 0
    ELSE IF ~write_ok THEN 2
    ELSE 0

\* keyboard_input padding the clone before it trims it
KeyboardInputPadFirst(path_chosen, create_ok, overflow_checks, write_ok) ==
    /\ InEditor
    /\ Callable
    /\ UNCHANGED menu
    /\ UNCHANGED game
    /\ UNCHANGED <<state, in_file, read, view>>
    /\ prev' = tiles
    /\ op' = Op("save", IF path_chosen THEN 1 ELSE 0,
                         SaveOutcome(tiles, path_chosen, create_ok, overflow_checks, write_ok))
    /\ UNCHANGED tiles
    /\ IF ~path_chosen
           THEN panicked' = FALSE /\ written' = NoWrite
       ELSE IF \/ ~create_ok
               \/ TrimUnderflows(tiles) /\ overflow_checks
               \/ PadOutOfRange(trim(tiles), 1)
               \/ ~write_ok
           THEN panicked' = TRUE /\ written' = NoWrite
       ELSE panicked' = FALSE /\ written' = to_string(trim(pad(tiles, 1)))

\* keyboard_input trimming and padding LiveMap itself, not a clone
KeyboardInputInPlace(path_chosen, create_ok, overflow_checks, write_ok) ==
    /\ InEditor
    /\ Callable
    /\ UNCHANGED menu
    /\ UNCHANGED game
    /\ UNCHANGED <<state, in_file, read, view>>
    /\ prev' = tiles
    /\ op' = Op("save", IF path_chosen THEN 1 ELSE 0,
                         SaveOutcome(tiles, path_chosen, create_ok, overflow_checks, write_ok))
    /\ tiles' = IF path_chosen /\ create_ok THEN pad(trim(tiles), 1) ELSE tiles
    /\ IF ~path_chosen
           THEN panicked' = FALSE /\ written' = NoWrite
       ELSE IF \/ ~create_ok
               \/ TrimUnderflows(tiles) /\ overflow_checks
               \/ PadOutOfRange(trim(tiles), 1)
               \/ ~write_ok
           THEN panicked' = TRUE /\ written' = NoWrite
       ELSE panicked' = FALSE /\ written' = to_string(pad(trim(tiles), 1))

\* keyboard_input on S, lines 553-565.  Every unwrap() panics on an Err.  The
\* map trimmed and padded is a clone: LiveMap is not written.  written holds
\* the text of a completed write_all only.
KeyboardInput(path_chosen, create_ok, overflow_checks, write_ok) ==
    /\ InEditor
    /\ Callable
    /\ UNCHANGED menu
    /\ UNCHANGED game
    /\ UNCHANGED <<state, in_file, read, view>>
    /\ prev' = tiles
    /\ op' = Op("save", IF path_chosen THEN 1 ELSE 0,
                         SaveOutcome(tiles, path_chosen, create_ok, overflow_checks, write_ok))
    /\ UNCHANGED tiles
    /\ IF ~path_chosen
           THEN panicked' = FALSE /\ written' = NoWrite
       ELSE IF \/ ~create_ok
               \/ TrimUnderflows(tiles) /\ overflow_checks
               \/ PadOutOfRange(trim(tiles), 1)
               \/ ~write_ok
           THEN panicked' = TRUE /\ written' = NoWrite
       ELSE panicked' = FALSE /\ written' = to_string(pad(trim(tiles), 1))

\* the call returns to the frame loop.  Of the call the model keeps the map
\* only: mouse_navigation moves the camera freely before the next click.
Return ==
    /\ op # Idle
    /\ ~panicked
    /\ op' = Idle
    /\ prev' = NewMap
    /\ written' = NoWrite
    /\ read' = NoRead
    /\ view' = NoView
    /\ UNCHANGED <<tiles, panicked, state, in_file>>
    /\ UNCHANGED menu
    /\ UNCHANGED game

\* the presses of the sessions that pick no file: the dialog of FileSelect
\* is cancelled
Press == \E action \in MenuActions : MenuAction(action, None)

Next ==
    \/ Press
    \/ MenuTransition
    \/ EditorSetup
    \/ \E y \in Args, x \in Args : ExpandTo(y, x)
    \/ \E click \in Clicks : MouseInput(click)
    \/ \E path_chosen \in BOOLEAN, create_ok \in BOOLEAN,
          overflow_checks \in BOOLEAN, write_ok \in BOOLEAN :
            KeyboardInput(path_chosen, create_ok, overflow_checks, write_ok)
    \/ \E overflow_checks \in BOOLEAN : Trim(overflow_checks)
    \/ \E padding \in 0..MaxPad : Pad(padding)
    \/ Return

Spec == Init /\ [][Next]_vars

\* a session that opens a selected file and saves what it loaded
NextLoad ==
    \/ Press
    \/ MenuTransition
    \/ EditorSetup
    \/ \E path_chosen \in BOOLEAN, create_ok \in BOOLEAN,
          overflow_checks \in BOOLEAN, write_ok \in BOOLEAN :
            KeyboardInput(path_chosen, create_ok, overflow_checks, write_ok)
    \/ Return

SpecLoad == InitLoad /\ [][NextLoad]_vars

\* a file is loaded and the operations of Map are applied to what was read
NextLib ==
    \/ Press
    \/ MenuTransition
    \/ EditorSetup
    \/ \E overflow_checks \in BOOLEAN : Trim(overflow_checks)
    \/ \E padding \in 0..MaxPad : Pad(padding)
    \/ Return

SpecLib == InitLib /\ [][NextLib]_vars

\* ----------------------------------------------------------------- the game
\* the rectangular maps of rows x cols tiles whose border is Blocked: the
\* tiles off the border are Walkable where walkable says so
BorderedMap(rows, cols, walkable) ==
    [i \in 1..rows |-> [j \in 1..cols |->
        IF <<i - 1, j - 1>> \in walkable
            THEN [DefaultTile EXCEPT !.tile_type = "Walkable"]
            ELSE DefaultTile]]

\* the cells off the border of a rows x cols map, counted from 0
Interior(rows, cols) == (1..(rows - 2)) \X (1..(cols - 2))

BorderedMaps(max_rows, max_cols) ==
    UNION {{BorderedMap(rows, cols, walkable) : walkable \in SUBSET Interior(rows, cols)} :
             <<rows, cols>> \in (3..max_rows) \X (3..max_cols)}

\* the game or the grid demo after setup: a map with a Blocked border and
\* the player on a cell off the border
InitGame ==
    /\ tiles = NewMap
    /\ panicked = FALSE
    /\ written = NoWrite
    /\ prev = NewMap
    /\ op = Idle
    /\ state = "StartMenu"
    /\ in_file = None
    /\ read = NoRead
    /\ view = NoView
    /\ menu_state = "Main"
    /\ next_menu_state = None
    /\ next_state = None
    /\ program \in {"game", "grid"}
    /\ current_map \in BorderedMaps(MaxGameRows, MaxGameCols)
    /\ position \in Interior(Len(current_map), FirstRowLen(current_map))
    /\ tick = NoTick

\* the keys player_movement tests, in the order it tests them
Keys == <<"W", "S", "A", "D">>

Pressed(keys) == SelectSeq(Keys, LAMBDA key : key \in keys)

\* the cell looked up for a key: pos.0 - 1, pos.0 + 1, pos.1 - 1, pos.1 + 1
Neighbour(pos, key) ==
    IF key = "W" THEN <<pos[1] - 1, pos[2]>>
    ELSE IF key = "S" THEN <<pos[1] + 1, pos[2]>>
    ELSE IF key = "A" THEN <<pos[1], pos[2] - 1>>
    ELSE <<pos[1], pos[2] + 1>>

\* the index is inside tiles: an index below 0 is a usize underflow, which
\* panics or wraps to an index past the end
InRange(m, cell) ==
    /\ cell[1] >= 0 /\ cell[1] < Len(m)
    /\ cell[2] >= 0 /\ cell[2] < Len(m[cell[1] + 1])

\* a move made without looking at the tile
IsWalkableUnchecked(m, cell) == TRUE

\* tiles[..][..].tile_type == TileType::Walkable; grid[..][..] in the grid demo
IsWalkable(m, cell) == m[cell[1] + 1][cell[2] + 1].tile_type = "Walkable"

\* the if / else if chain of the game: the first pressed key whose
\* neighbour is Walkable moves the player, and nothing is tested after it
RECURSIVE MoveFirst(_, _, _)
MoveFirst(m, pos, keys) ==
    IF Len(keys) = 0
        THEN [pos |-> pos, lookups |-> {}, landed |-> {}, panicked |-> FALSE]
    ELSE IF ~InRange(m, Neighbour(pos, Head(keys)))
        THEN [pos |-> pos, lookups |-> {Neighbour(pos, Head(keys))},
              landed |-> {}, panicked |-> TRUE]
    ELSE IF IsWalkable(m, Neighbour(pos, Head(keys)))
        THEN [pos |-> Neighbour(pos, Head(keys)),
              lookups |-> {Neighbour(pos, Head(keys))},
              landed |-> {Neighbour(pos, Head(keys))}, panicked |-> FALSE]
    ELSE [MoveFirst(m, pos, Tail(keys)) EXCEPT
              !.lookups = @ \cup {Neighbour(pos, Head(keys))}]

\* the four separate ifs of the grid demo: every pressed key is tested, each
\* from the position the keys before it left
RECURSIVE MoveEach(_, _, _)
MoveEach(m, pos, keys) ==
    IF Len(keys) = 0
        THEN [pos |-> pos, lookups |-> {}, landed |-> {}, panicked |-> FALSE]
    ELSE IF ~InRange(m, Neighbour(pos, Head(keys)))
        THEN [pos |-> pos, lookups |-> {Neighbour(pos, Head(keys))},
              landed |-> {}, panicked |-> TRUE]
    ELSE IF IsWalkable(m, Neighbour(pos, Head(keys)))
        THEN [MoveEach(m, Neighbour(pos, Head(keys)), Tail(keys)) EXCEPT
                  !.lookups = @ \cup {Neighbour(pos, Head(keys))},
                  !.landed = @ \cup {Neighbour(pos, Head(keys))}]
    ELSE [MoveEach(m, pos, Tail(keys)) EXCEPT
              !.lookups = @ \cup {Neighbour(pos, Head(keys))}]

\* what a run of player_movement leaves, given what the keys did
Moved(from, result) ==
    /\ position' = result.pos
    /\ panicked' = result.panicked
    /\ tick' = [from |-> from, lookups |-> result.lookups, landed |-> result.landed]

\* player_movement of the game, src/game/src/main.rs:410-452; nothing
\* happens until the timer has finished
PlayerMovement(keys, finished) ==
    /\ program = "game"
    /\ ~panicked
    /\ IF finished
           THEN Moved(position, MoveFirst(current_map, position, Pressed(keys)))
           ELSE Moved(position, MoveFirst(current_map, position, <<>>))
    /\ UNCHANGED <<tiles, written, prev, op, state, in_file, read, view>>
    /\ UNCHANGED <<menu, program, current_map>>

\* player_movement of the grid demo, src/src/main.rs:320-361
GridPlayerMovement(keys, finished) ==
    /\ program = "grid"
    /\ ~panicked
    /\ IF finished
           THEN Moved(position, MoveEach(current_map, position, Pressed(keys)))
           ELSE Moved(position, MoveEach(current_map, position, <<>>))
    /\ UNCHANGED <<tiles, written, prev, op, state, in_file, read, view>>
    /\ UNCHANGED <<menu, program, current_map>>

NextGame ==
    \/ \E keys \in SUBSET {"W", "S", "A", "D"}, finished \in BOOLEAN :
            PlayerMovement(keys, finished)
    \/ \E keys \in SUBSET {"W", "S", "A", "D"}, finished \in BOOLEAN :
            GridPlayerMovement(keys, finished)

SpecGame == InitGame /\ [][NextGame]_vars

\* the menu with a dialog that returns any file of one tile, or none
NextMenu ==
    \/ \E action \in MenuActions, picked \in Option(Files(OneTileMaps)) :
            MenuAction(action, picked)
    \/ MenuTransition
    \/ EditorSetup
    \/ Return

SpecMenu == Init /\ [][NextMenu]_vars

\* ------------------------------------------------------------------ claims
\* the addresses (row, column), counted from 0, of the non-Blocked tiles of t
Content(t) ==
    UNION {{<<i - 1, j - 1>> : j \in {k \in 1..Len(t[i]) : t[i][k].tile_type # "Blocked"}} :
              i \in 1..Len(t)}

ContentRows(t) == {c[1] : c \in Content(t)}
ContentCols(t) == {c[2] : c \in Content(t)}

C2_TrimIsBoundingBox ==
    (op.name = "trim" /\ ~panicked /\ Content(prev) # {}) =>
        /\ Len(tiles) = SetMax(ContentRows(prev)) - SetMin(ContentRows(prev)) + 1
        /\ \A i \in 1..Len(tiles) :
              Len(tiles[i]) = SetMax(ContentCols(prev)) - SetMin(ContentCols(prev)) + 1

\* C3: trim() is idempotent: trim() applied to the result of a trim()
\* changes nothing.
C3_TrimIdempotent ==
    (op.name = "trim" /\ ~panicked) => trim(tiles) = tiles

\* C4: a negative target inserts exactly -target default rows (columns) at
\* the front, and every existing tile keeps its value at an index larger by
\* -target.  The second argument is taken as the row target, as the code
\* takes it.
C4_FrontInsertCount ==
    (op.name = "expand_to") =>
        /\ op.b < 0 =>
              /\ Len(tiles) = Len(prev) + (0 - op.b)
              /\ \A i \in 1..(0 - op.b) : \A j \in 1..Len(tiles[i]) : tiles[i][j] = DefaultTile
        /\ op.a < 0 =>
              \A i \in 1..Len(prev) : Len(tiles[i + (Len(tiles) - Len(prev))]) = Len(prev[i]) + (0 - op.a)

FrontRowsAdded == IF op.b < 0 THEN Len(tiles) - Len(prev) ELSE 0
FrontColsAdded == IF op.a < 0 THEN FirstRowLen(tiles) - FirstRowLen(prev) ELSE 0

\* C6: expand_to keeps every stored tile, moved by the rows and columns put
\* in front, and every cell that did not exist before is the default Tile.
C6_ExpandPreserves ==
    (op.name = "expand_to") =>
        LET dr == FrontRowsAdded
            dc == FrontColsAdded
        IN  /\ dr >= 0 /\ dc >= 0
            /\ \A i \in 1..Len(prev) : \A j \in 1..Len(prev[i]) :
                  /\ i + dr <= Len(tiles)
                  /\ j + dc <= Len(tiles[i + dr])
                  /\ tiles[i + dr][j + dc] = prev[i][j]
            /\ \A i \in 1..Len(tiles) : \A j \in 1..Len(tiles[i]) :
                  \/ i - dr \in 1..Len(prev) /\ j - dc \in 1..Len(prev[i - dr])
                  \/ tiles[i][j] = DefaultTile

\* a call that puts rows and columns in front of a painted grid
C6_Witness ==
    /\ op.name = "expand_to"
    /\ FrontRowsAdded >= 1 /\ FrontColsAdded >= 1
    /\ Content(prev) # {}
    /\ Content(tiles) # {}

\* C7: in every reachable state every row of the grid has the same length.
C7_Rectangular == \A i \in 1..Len(tiles) : Len(tiles[i]) = Len(tiles[1])

\* rows put in front of a grid of several rows and columns
C7_Witness ==
    /\ op.name = "expand_to"
    /\ op.b < 0 - 1
    /\ Len(prev) >= 2 /\ FirstRowLen(prev) >= 2
    /\ Len(tiles) > Len(prev)

\* C8: trim() on a grid with zero rows does not panic and leaves it empty.
C8_TrimEmptyNoPanic ==
    (op.name = "trim" /\ Len(prev) = 0) => (~panicked /\ tiles = NewMap)

\* t is its content rectangle with exactly one ring of Blocked tiles around it
OneRing(t) ==
    /\ Content(t) # {}
    /\ SetMin(ContentRows(t)) = 1 /\ SetMax(ContentRows(t)) = Len(t) - 2
    /\ SetMin(ContentCols(t)) = 1 /\ SetMax(ContentCols(t)) = FirstRowLen(t) - 2

\* C9: for a grid that is its content rectangle inside one ring of Blocked
\* tiles, trim() then pad(1), as done on a save, gives the grid back.
C9_TrimPadRoundTrip ==
    (op.name = "save" /\ written # NoWrite /\ OneRing(tiles)) =>
        written = to_string(tiles)

\* C10: pad(m) gives (rows + 2m) x (cols + 2m) tiles, the tile at
\* (i + m, j + m) being the old tile at (i, j) and every other tile the
\* default tile; pad(0) changes nothing.
C10_PadCentres ==
    (op.name = "pad" /\ ~panicked) =>
        LET m == op.a
        IN  /\ Len(tiles) = Len(prev) + 2 * m
            /\ \A i \in 1..Len(tiles) :
                  /\ Len(tiles[i]) = FirstRowLen(prev) + 2 * m
                  /\ \A j \in 1..Len(tiles[i]) :
                        tiles[i][j] =
                            IF i - m \in 1..Len(prev) /\ j - m \in 1..FirstRowLen(prev)
                                THEN prev[i - m][j - m]
                                ELSE DefaultTile
            /\ m = 0 => tiles = prev

\* a positive margin put around a painted grid of more than one tile
C10_Witness ==
    /\ op.name = "pad" /\ ~panicked
    /\ op.a >= 1
    /\ Len(prev) >= 2
    /\ Content(prev) # {}
    /\ Content(tiles) # {}

\* C11: trim() of a grid that has at least one tile and only Blocked tiles
\* does not panic and leaves the grid as it was: same rows, same columns,
\* same tiles.
C11_TrimAllBlockedUnchanged ==
    (/\ op.name = "trim"
     /\ Len(prev) >= 1
     /\ \A i \in 1..Len(prev) : Len(prev[i]) >= 1
     /\ Content(prev) = {}) => (~panicked /\ tiles = prev)

\* an all-Blocked grid of several rows and columns was trimmed
C11_Witness ==
    /\ op.name = "trim" /\ ~panicked
    /\ Len(prev) >= 2 /\ FirstRowLen(prev) >= 2
    /\ \A i \in 1..Len(prev) : Len(prev[i]) >= 1
    /\ Content(prev) = {}
    /\ tiles = prev

\* C12: the result of trim() is a block of consecutive rows and columns of
\* the old grid, in the old order, every tile at its old place relative to
\* the others, and no non-Blocked tile of the old grid lies outside of it.
C12_TrimKeepsContent ==
    (op.name = "trim" /\ ~panicked) =>
        \E r0 \in 0..Len(prev) : \E c0 \in 0..FirstRowLen(prev) :
            /\ r0 + Len(tiles) <= Len(prev)
            /\ \A i \in 1..Len(tiles) :
                  /\ Len(tiles[i]) = FirstRowLen(tiles)
                  /\ c0 + Len(tiles[i]) <= Len(prev[i + r0])
                  /\ \A j \in 1..Len(tiles[i]) : tiles[i][j] = prev[i + r0][j + c0]
            /\ \A c \in Content(prev) :
                  /\ c[1] >= r0 /\ c[1] < r0 + Len(tiles)
                  /\ c[2] >= c0 /\ c[2] < c0 + FirstRowLen(tiles)

\* a trim that removed rows of a grid with two painted tiles and kept both
C12_Witness ==
    /\ op.name = "trim" /\ ~panicked
    /\ Cardinality(Content(prev)) >= 2
    /\ Len(tiles) < Len(prev)
    /\ Cardinality(Content(tiles)) = Cardinality(Content(prev))

\* t has a non-Blocked tile in its first or last row or column
BorderContent(t) ==
    \E c \in Content(t) :
        \/ c[1] = 0 \/ c[1] = Len(t) - 1
        \/ c[2] = 0 \/ c[2] = FirstRowLen(t) - 1

C15_CellIsFloor ==
    (op.name = "mouse_input") =>
        /\ AsI32(op.a) = op.a \div TileSize
        /\ AsI32(op.b) = op.b \div TileSize

\* the grid of a click after its call of expand_to, before its tile write
AfterExpand == expand_to(prev, AsI32(op.a), AsI32(op.b))

\* the address of the tile write of a click is outside of the grid
WriteOutside ==
    \/ AsUsize(op.b) >= Len(AfterExpand)
    \/ AsUsize(op.a) >= Len(AfterExpand[AsUsize(op.b) + 1])

\* C20: the tile write of a click changes neither the number of rows nor
\* the length of any row, and a write to an address outside of the grid
\* leaves the whole grid as expand_to made it.
C20_WriteNeverGrows ==
    (op.name = "mouse_input") =>
        /\ Len(tiles) = Len(AfterExpand)
        /\ \A i \in 1..Len(tiles) : Len(tiles[i]) = Len(AfterExpand[i])
        /\ WriteOutside => tiles = AfterExpand

\* a click whose write fell outside of a grid that has a row
C20_Witness ==
    /\ op.name = "mouse_input"
    /\ Len(AfterExpand) >= 1
    /\ WriteOutside
    /\ tiles = AfterExpand

\* C13: every tile in the first row, the last row, the first column and the
\* last column of the Map a save writes (trim() then pad(1)) is the default
\* Blocked tile.
C13_SavedBorderBlocked ==
    (op.name = "save" /\ written # NoWrite) =>
        LET saved == from_reader(written)
        IN  /\ saved.ok
            /\ Len(saved.map) >= 2
            /\ \A i \in 1..Len(saved.map) :
                  /\ Len(saved.map[i]) >= 2
                  /\ \A j \in 1..Len(saved.map[i]) :
                        (i \in {1, Len(saved.map)} \/ j \in {1, Len(saved.map[i])})
                            => saved.map[i][j] = DefaultTile

\* a save of a grid with a painted tile in its first or last row or column
C13_Witness ==
    /\ op.name = "save" /\ written # NoWrite
    /\ BorderContent(tiles)
    /\ Len(tiles) >= 2

C18_IoFailureReported ==
    (\/ op.name = "editor_setup" /\ op.a = 1
     \/ op.name = "save" /\ op.b \in {1, 2}) => (~panicked /\ tiles = prev)

\* C19: editor_setup always leaves the file slot empty; when the selected
\* file opens but is not a Map, it does not panic, prints the diagnostic,
\* and the editor is entered with a Map of zero rows.
C19_ParseFailureStartsEmpty ==
    (op.name = "editor_setup") =>
        /\ in_file = None
        /\ op.a = 3 =>
              /\ ~panicked
              /\ tiles = NewMap
              /\ op.b = 1
              /\ state = "Editor"

\* editor_setup has run on a file that opens and holds text that is no Map
C19_Witness ==
    /\ op.name = "editor_setup" /\ op.a = 3
    /\ read # NoRead
    /\ tiles = NewMap
    /\ in_file = None

\* C16: after a click whose cell is negative on an axis, the mapping of
\* lines 514-526 applied again to the same cursor, with the corrected camera
\* translation and the same scale, gives cell 0 on that axis, whatever the
\* scale is.
C16_CorrectionAnchorsClick ==
    (op.name = "mouse_input") =>
        /\ AsI32(op.a) < 0 => AsI32(Scaled(view, 1)) = 0
        /\ AsI32(op.b) < 0 => AsI32(Scaled(view, 2)) = 0

\* C21: a save whose destination is chosen and that runs to its end writes
\* text that reads back as pad(1) of trim() of the Map as it was when S was
\* pressed: trim first, then pad, then the write.
C21_SaveWritesTrimThenPad ==
    (op.name = "save" /\ op.a = 1 /\ ~panicked) =>
        from_reader(written) = [ok |-> TRUE, map |-> pad(trim(prev), 1)]

\* a save of a grid for which the order matters: trim() removes rows or
\* columns of it
C21_Witness ==
    /\ op.name = "save" /\ written # NoWrite
    /\ Content(prev) # {}
    /\ trim(prev) # prev
    /\ trim(pad(prev, 1)) # pad(trim(prev), 1)

\* C22: with camera translation 0 and scale 1, a click whose cursor offset
\* from the centre is in [0, 32) on both axes hands cell (0, 0) to expand_to
\* and paints the tile at row 0, column 0.
C22_CentreIsOrigin ==
    (/\ op.name = "mouse_input"
     /\ view.scale = 1
     /\ op.a = view.cursor[1] /\ op.b = view.cursor[2]
     /\ view.cursor[1] \in 0..(TileSize - 1)
     /\ view.cursor[2] \in 0..(TileSize - 1)) =>
        /\ AsI32(op.a) = 0 /\ AsI32(op.b) = 0
        /\ AsUsize(op.a) = 0 /\ AsUsize(op.b) = 0
        /\ tiles[1][1].tile_type = "Walkable"

\* a click on the last pixel of the cell at the centre, on both axes
C22_Witness ==
    /\ op.name = "mouse_input"
    /\ view = [cursor |-> <<TileSize - 1, TileSize - 1>>, translation |-> <<0, 0>>, scale |-> 1]
    /\ tiles[1][1].tile_type = "Walkable"

\* C23: after every click the address written to, a negative component
\* taken as index 0, is inside the grid and the tile there is Walkable.
C23_ClickPaints ==
    (op.name = "mouse_input") =>
        /\ AsUsize(op.b) < Len(tiles)
        /\ AsUsize(op.a) < Len(tiles[AsUsize(op.b) + 1])
        /\ tiles[AsUsize(op.b) + 1][AsUsize(op.a) + 1].tile_type = "Walkable"

\* C24: after a click whose cell on an axis is c < 0, the tile that was at
\* index 0 of that axis is at index -c: -c rows (columns) were put in front
\* of a grid that had rows (columns).
C24_OriginMovesByCell ==
    (op.name = "mouse_input" /\ Len(prev) >= 1 /\ FirstRowLen(prev) >= 1) =>
        /\ AsI32(op.b) < 0 => Len(tiles) - Len(prev) = 0 - AsI32(op.b)
        /\ AsI32(op.a) < 0 => FirstRowLen(tiles) - FirstRowLen(prev) = 0 - AsI32(op.a)

\* C25: in every reachable grid every row has at least one column.
C25_NoDegenerateGrid == \A i \in 1..Len(tiles) : Len(tiles[i]) >= 1

\* C27: a save, with or without a destination, leaves the Map of the
\* session as it was: same rows, same columns, same tiles.
C27_SaveKeepsLiveMap ==
    (op.name = "save") => tiles = prev

\* a save that wrote a Map different from the Map of the session
C27_Witness ==
    /\ op.name = "save" /\ written # NoWrite
    /\ Content(tiles) # {}
    /\ written # to_string(tiles)
    /\ tiles = prev

\* the tiles of a grid that differ from Tile::default()
NonDefault(t) ==
    {c \in UNION {{<<i, j>> : j \in 1..Len(t[i])} : i \in 1..Len(t)} :
        t[c[1]][c[2]] # DefaultTile}

\* C26: trim() removes no tile that differs from the default Tile: as many
\* such tiles are in the grid after trim() as before it, a Blocked tile
\* that holds an object included.
C26_TrimKeepsNonDefault ==
    (op.name = "trim" /\ ~panicked) =>
        Cardinality(NonDefault(tiles)) = Cardinality(NonDefault(prev))

\* C28: pad(m) on a Map the loader produced, rows of different lengths
\* included, does not index out of range and leaves a rectangular grid of
\* Len + 2m rows.
C28_PadSafeOnLoaded ==
    (op.name = "pad") =>
        /\ ~panicked
        /\ Len(tiles) = Len(prev) + 2 * op.a
        /\ \A i \in 1..Len(tiles) : Len(tiles[i]) = FirstRowLen(tiles)

\* C30: while the menu shows the Main screen no file is selected, so New
\* Map starts the editor with the empty Map; the editor is entered with a
\* selected file only from the Load Map screen, where only Continue sets
\* State::Editor; and Continue without a selected file sets no state and
\* leaves the menu as it is.
C30_MenuStateMachine ==
    /\ (state = "StartMenu" /\ menu_state = "Main") => in_file = None
    /\ (op.name = "editor_setup" /\ menu_state = "Main") =>
           (op.a = 0 /\ tiles = NewMap)
    /\ (op.name = "editor_setup" /\ op.a # 0) => menu_state = "LoadMap"
    /\ (menu_state = "LoadMap" /\ next_state # None) => in_file # None
    /\ (op.name = "menu_action" /\ next_state # None) =>
           (op.a = "NewMap" \/ (op.a = "Continue" /\ op.b # 0))
    /\ (op.name = "menu_action" /\ op.a = "Continue" /\ op.b = 0) =>
           /\ next_state = None /\ next_menu_state = None
           /\ state = "StartMenu" /\ menu_state = "LoadMap" /\ in_file = None

\* Back pressed on the Load Map screen while a file that holds a Map was
\* selected: the selection is gone and the Main screen is set
C30_Witness ==
    /\ op.name = "menu_action" /\ op.a = "BackToMainMenu" /\ op.b = 2
    /\ in_file = None
    /\ next_menu_state = <<"Main">>

\* the cell is off the border of the map
OffBorder(m, cell) ==
    /\ cell[1] >= 1 /\ cell[1] < Len(m) - 1
    /\ cell[2] >= 1 /\ cell[2] < FirstRowLen(m) - 1

\* C29: on a rectangular map with a Blocked border, with the player started
\* off the border, after any ticks of player_movement with any keys held the
\* position is inside the map and off its border, every cell moved to is
\* Walkable, and every cell looked up is inside the map (no index
\* underflows or is out of range).
C29_PlayerStaysInside ==
    (program \in {"game", "grid"}) =>
        /\ ~panicked
        /\ OffBorder(current_map, position)
        /\ \A cell \in tick.lookups : InRange(current_map, cell)
        /\ \A cell \in tick.landed :
               InRange(current_map, cell) /\ IsWalkable(current_map, cell)

\* a tick that looked up a Blocked cell of the border for one key and
\* moved the player for another
C29_Witness ==
    /\ program \in {"game", "grid"}
    /\ position # tick.from
    /\ position \in tick.landed
    /\ \E cell \in tick.lookups : ~OffBorder(current_map, cell)

====
